---- MODULE Spec2Model ----
(***************************************************************************)
(* Model of the image catalog (image_finder.py) and the thumbnail pass     *)
(* (thumbnail.py): a catalog run scans files, buffers candidate records    *)
(* and flushes them into the PostgreSQL table images; a thumbnail pass     *)
(* selects the rows without thumbnail_path, writes one JPEG per row and    *)
(* records its location.                                                   *)
(***************************************************************************)
EXTENDS Integers, Sequences, FiniteSets, TLC

(***************************************************************************)
(* Bounds of the model.                                                    *)
(***************************************************************************)
\* the number of times the environment creates, rewrites or deletes a file
MaxFsChanges == 1
\* the largest --batch-size a catalog run is started with
MaxBatchSize == 3
\* the last value images_id_seq may hand out
MaxId == 6

(***************************************************************************)
(* Program constants.                                                      *)
(***************************************************************************)
\* page_size of execute_values: 1000 in the source, scaled to 2 so that a
\* batch of MaxBatchSize records spans more than one INSERT statement
PageSize == 2

\* The files of the search directories, in the order rglob yields them.
Paths == <<"a.jpg", "b.png", "c.dng">>
PathSet == {Paths[i] : i \in 1..Len(Paths)}

\* File contents, named by their SHA-256 digest. "h1" is an image PIL can
\* decode; "h2" is a file with an image suffix that PIL cannot decode.
Hashes == {"h1", "h2"}
\* What a path can hold: no file, a file that open() cannot read (stat
\* succeeds, reading raises), or a file of some content.
Absent == "absent"
Unreadable == "locked"
Contents == {Absent, Unreadable} \cup Hashes
\* The trees considered: the raw file c.dng is absent or holds the content
\* "h2"; the other paths hold anything.
ContentsOf(p) == IF p = "c.dng" THEN {Absent, "h2"} ELSE Contents
Trees == {f \in [PathSet -> Contents] : \A p \in PathSet : f[p] \in ContentsOf(p)}

NULL == <<>>

IMAGE_EXTENSIONS == {".jpg", ".jpeg", ".png", ".bmp", ".tiff", ".webp", ".dng"}
SUPPORTED_IMAGE_EXTENSIONS == {".webp", ".jpeg", ".png", ".bmp", ".jpg", ".tiff"}
THUMBNAIL_DIR == "public/thumbnails"

\* file_path.suffix.lower()
Suffix(p) ==
    CASE p = "a.jpg" -> ".jpg"
      [] p = "b.png" -> ".png"
      [] p = "c.dng" -> ".dng"

\* st_size of a file with the given content
SizeOf(c) ==
    CASE c = "h1" -> 10
      [] c = "h2" -> 20
      [] OTHER -> 0

\* int(st_mtime) of a file with the given content
MTimeOf(c) ==
    CASE c = "h1" -> 100
      [] c = "h2" -> 200
      [] OTHER -> 0

VARIABLES
    fs,            \* the search directories: path -> what the path holds
    fsChanges,     \* changes the environment has made to fs
    images,        \* the committed rows of table images
    idSeq,         \* last value of the sequence behind images.id
    thumbFiles,    \* files under THUMBNAIL_DIR: artifact path -> times written
    catPc,         \* position of the catalog run
    batch_size,    \* catalog_images: batch_size
    all_files,     \* catalog_images: all_files
    fileIdx,       \* catalog_images: index of the next file of the for loop
    records,       \* catalog_images: the buffer
    page,          \* execute_values: index of the next page of the batch
    txn,           \* rows inserted by the open transaction, not yet committed
    rowcount,      \* cursor.rowcount
    inserted,      \* value returned by the last insert_image_records
    catExit,       \* how the last catalog run ended
    thPc,          \* position of the thumbnail pass
    thImages,      \* create_thumbnails: rows of `images` not yet iterated
    thCur,         \* create_thumbnails: the row of the current iteration
    counters,      \* create_thumbnails: the five metrics
    scannedFps,    \* history: fingerprints of the records of every ended flush
    pl,            \* history: progress of two pipeline runs over one tree
    rr,            \* history: a rerun after an interrupted catalog run
    failedIds,     \* history: ids of the rows whose generation has failed
    bf,            \* history: records processed and submitted by a catalog run
    passIds,       \* history: ids of the rows a thumbnail pass has attached
    cc,            \* two concurrent catalog runs: run -> its locals
    tt             \* two concurrent thumbnail passes: pass -> its locals

envVars == <<fs, fsChanges>>
dbVars == <<images, idSeq>>
catVars == <<catPc, batch_size, all_files, fileIdx, records, page, txn, rowcount,
             inserted, catExit>>
thVars == <<thPc, thImages, thCur, counters>>
vars == <<fs, fsChanges, images, idSeq, thumbFiles, catPc, batch_size, all_files,
          fileIdx, records, page, txn, rowcount, inserted, catExit,
          thPc, thImages, thCur, counters, scannedFps, pl, rr, failedIds,
          bf, passIds, cc, tt>>
histVars == <<scannedFps, pl, rr, failedIds, bf, passIds>>
concVars == <<cc, tt>>

(***************************************************************************)
(* Helpers on sequences and rows.                                          *)
(***************************************************************************)
RECURSIVE SelectPaths(_, _)
\* collect_files: the files that exist and pass the filter, in rglob order
SelectPaths(i, f) ==
    IF i > Len(Paths) THEN <<>>
    ELSE LET p == Paths[i]
             rest == SelectPaths(i + 1, f)
         IN IF f[p] # Absent /\ Suffix(p) \in IMAGE_EXTENSIONS
            THEN <<p>> \o rest
            ELSE rest

collect_files(f) == SelectPaths(1, f)

\* calculate_file_hash: the digest, or "" when the file cannot be read
calculate_file_hash(f, p) ==
    IF f[p] \in Hashes THEN f[p] ELSE ""

\* process_file_metadata without `if not file_hash: return None`
process_file_metadataNoHashTest(f, p) ==
    IF f[p] = Absent THEN <<>>
    ELSE <<[file_name |-> p,
          path      |-> <<"/abs", p>>,
          extension |-> Suffix(p),
          size      |-> SizeOf(f[p]),
          timestamp |-> MTimeOf(f[p]),
          hash      |-> calculate_file_hash(f, p)]>>

\* process_file_metadata: Optional[Dict], as a sequence of no or one record
process_file_metadata(f, p) ==
    IF f[p] = Absent THEN <<>>          \* file_path.stat() raises
    ELSE IF calculate_file_hash(f, p) = "" THEN <<>>
    ELSE <<[file_name |-> p,
          path      |-> <<"/abs", p>>,
          extension |-> Suffix(p),
          size      |-> SizeOf(f[p]),
          timestamp |-> MTimeOf(f[p]),
          hash      |-> calculate_file_hash(f, p)]>>

\* A row of images made of a candidate record and a fresh id.
Row(rec, id) ==
    [id |-> id, file_name |-> rec.file_name, path |-> rec.path,
     extension |-> rec.extension, size |-> rec.size,
     timestamp |-> rec.timestamp, hash |-> rec.hash, thumbnail_path |-> NULL]

\* the ids and the fingerprints of rows, the fingerprints of records
RowIds(rows) == {r.id : r \in rows}
RowHashes(rows) == {r.hash : r \in rows}
RecHashes(recs) == {recs[i].hash : i \in 1..Len(recs)}

RECURSIVE InsertRowsNoUnique(_, _, _, _, _)
\* InsertRows on a table created without its UNIQUE constraints
InsertRowsNoUnique(recs, i, vis, seq, added) ==
    IF i > Len(recs) THEN [err |-> FALSE, added |-> added, seq |-> seq]
    ELSE InsertRowsNoUnique(recs, i + 1, vis, seq + 1,
                            added \cup {Row(recs[i], seq + 1)})

RECURSIVE InsertRows(_, _, _, _, _)
\* One INSERT ... VALUES ... ON CONFLICT (hash) DO NOTHING statement over the
\* candidate records recs[i..], against the rows `vis` the transaction sees.
\* Every proposed row draws an id from the sequence; a row whose hash is
\* taken is skipped; a row whose path is taken by a row of another hash
\* violates UNIQUE(path) and fails the statement.
InsertRows(recs, i, vis, seq, added) ==
    IF i > Len(recs) THEN [err |-> FALSE, added |-> added, seq |-> seq]
    ELSE LET rec == recs[i]
             cur == vis \cup added
         IN IF \E r \in cur : r.hash = rec.hash
            THEN InsertRows(recs, i + 1, vis, seq + 1, added)
            ELSE IF \E r \in cur : r.path = rec.path
            THEN [err |-> TRUE, added |-> {}, seq |-> seq + 1]
            ELSE InsertRows(recs, i + 1, vis, seq + 1,
                            added \cup {Row(rec, seq + 1)})

\* _paginate: the k-th page of the batch
PageOf(recs, k) ==
    SubSeq(recs, (k - 1) * PageSize + 1,
           IF k * PageSize < Len(recs) THEN k * PageSize ELSE Len(recs))

NumPages(recs) == (Len(recs) + PageSize - 1) \div PageSize

RECURSIVE ScanAll(_, _, _)
\* the records the for loop of catalog_images produces for files[i..]
ScanAll(f, files, i) ==
    IF i > Len(files) THEN <<>>
    ELSE process_file_metadata(f, files[i]) \o ScanAll(f, files, i + 1)

\* catalog_images run to its end over the tree f from the registry `base`,
\* when no statement fails
FullRun(base, f) ==
    base \cup InsertRows(ScanAll(f, collect_files(f), 1), 1, base, 0, {}).added

(***************************************************************************)
(* Helpers of the thumbnail pass.                                          *)
(***************************************************************************)
ZeroCounters ==
    [total_images |-> 0, total_processed |-> 0, total_skipped |-> 0,
     total_errors |-> 0, total_success |-> 0]

\* THUMBNAIL_DIR / f"{image_id}_thumbnail.jpg"
ThumbnailPath(image_id) == <<THUMBNAIL_DIR, image_id, "_thumbnail.jpg">>

\* Path(path).exists() for the path column of a row
PathExists(f, path) == f[path[2]] # Absent

\* generate_thumbnail: True when PIL opens, resizes and saves the image; any
\* exception is caught and gives False, and a failed save leaves no file
generate_thumbnail(f, path) == f[path[2]] = "h1"

\* the SELECT without `extension = ANY(%s)`
SelectImagesAnyExtension(rows) ==
    {[id |-> r.id, file_name |-> r.file_name, path |-> r.path,
      extension |-> r.extension] :
        r \in {x \in rows : x.thumbnail_path = NULL}}

\* SELECT id, file_name, path, extension FROM images
\* WHERE extension = ANY(SUPPORTED_IMAGE_EXTENSIONS) AND thumbnail_path IS NULL
SelectImages(rows) ==
    {[id |-> r.id, file_name |-> r.file_name, path |-> r.path,
      extension |-> r.extension] :
        r \in {x \in rows : /\ x.extension \in SUPPORTED_IMAGE_EXTENSIONS
                            /\ x.thumbnail_path = NULL}}

\* the UPDATE without its WHERE clause
UpdateThumbnailPathNoWhere(rows, image_id, tp) ==
    {[r EXCEPT !.thumbnail_path = tp] : r \in rows}

\* UPDATE images SET thumbnail_path = tp WHERE id = image_id
UpdateThumbnailPath(rows, image_id, tp) ==
    {IF r.id = image_id THEN [r EXCEPT !.thumbnail_path = tp] ELSE r : r \in rows}

\* img.save(thumbnail_path, "JPEG"): the file is created or written again
SaveFile(files, tp) ==
    IF tp \in DOMAIN files
    THEN [files EXCEPT ![tp] = @ + 1]
    ELSE [q \in DOMAIN files \cup {tp} |-> IF q = tp THEN 1 ELSE files[q]]

\* The history records when nothing is being followed.
PlOff == [phase |-> "off", images |-> {}, files |-> <<>>]
RrOff == [phase |-> "off", base |-> {}, kept |-> {}]

\* The two concurrent invocations of each program.
Runs == {1, 2}
Other(r) == 3 - r
\* the locals of a catalog run that is not in progress; exit tells how the
\* run ended and submitted is the history of the fingerprints it handed to
\* insert_image_records
CcIdle ==
    [pc |-> "idle", batch_size |-> 1, all_files |-> <<>>, fileIdx |-> 1,
     records |-> <<>>, pos |-> 1, txn |-> {}, exit |-> "none", submitted |-> {}]
\* the locals of a thumbnail pass that is not in progress
TtIdle ==
    [pc |-> "idle", images |-> {}, cur |-> <<>>, counters |-> ZeroCounters,
     done |-> FALSE]

BfOff == [processed |-> <<>>, submitted |-> <<>>, flushes |-> 0]

(***************************************************************************)
(* Initial state: an initialized, empty database and some tree of files.   *)
(***************************************************************************)
Init ==
    /\ fs \in Trees
    /\ fsChanges = 0
    /\ images = {}
    /\ idSeq = 0
    /\ thumbFiles = [q \in {} |-> 0]
    /\ catPc = "idle"
    /\ batch_size = 1
    /\ all_files = <<>>
    /\ fileIdx = 1
    /\ records = <<>>
    /\ page = 1
    /\ txn = {}
    /\ rowcount = 0
    /\ inserted = 0
    /\ catExit = "none"
    /\ thPc = "idle"
    /\ thImages = {}
    /\ thCur = <<>>
    /\ counters = ZeroCounters
    /\ scannedFps = {}
    /\ pl = PlOff
    /\ rr = RrOff
    /\ failedIds = {}
    /\ bf = BfOff
    /\ passIds = {}
    /\ cc = [r \in Runs |-> CcIdle]
    /\ tt = [k \in Runs |-> TtIdle]

(***************************************************************************)
(* The environment: files are created, rewritten and deleted.              *)
(***************************************************************************)
ChangeFile(p, c) ==
    /\ fsChanges < MaxFsChanges
    /\ c \in ContentsOf(p)
    /\ c # fs[p]
    /\ fs' = [fs EXCEPT ![p] = c]
    /\ fsChanges' = fsChanges + 1
    /\ UNCHANGED <<dbVars, thumbFiles, catVars, thVars>>

(***************************************************************************)
(* catalog_images                                                          *)
(***************************************************************************)
\* catalog_images returns or is left by an exception: its locals are gone
Return ==
    /\ batch_size' = 1
    /\ all_files' = <<>>
    /\ fileIdx' = 1
    /\ records' = <<>>
    /\ page' = 1
    /\ rowcount' = 0

\* catalog_images is called: collect_files, empty buffer, borrow a connection
StartCatalog(bs) ==
    /\ catPc = "idle"
    /\ batch_size' = bs
    /\ all_files' = collect_files(fs)
    /\ fileIdx' = 1
    /\ records' = <<>>
    /\ page' = 1
    /\ txn' = {}
    /\ rowcount' = 0
    /\ inserted' = 0
    /\ catPc' = "scan"
    /\ catExit' = "none"
    /\ UNCHANGED <<envVars, dbVars, thumbFiles, thVars>>

\* one iteration of the for loop up to the call of insert_image_records
ScanFile ==
    /\ catPc = "scan"
    /\ fileIdx <= Len(all_files)
    /\ LET record == process_file_metadata(fs, all_files[fileIdx])
       IN IF record # <<>>
          THEN /\ records' = records \o record
               /\ catPc' = IF Len(records) + 1 >= batch_size THEN "flush" ELSE "scan"
          ELSE UNCHANGED <<records, catPc>>
    /\ fileIdx' = fileIdx + 1
    /\ UNCHANGED <<envVars, dbVars, thumbFiles, thVars, batch_size, all_files, page, txn,
                   rowcount, inserted, catExit>>

\* the for loop is over: flush what remains, or return
EndScan ==
    /\ catPc = "scan"
    /\ fileIdx > Len(all_files)
    /\ IF records # <<>>
       THEN /\ catPc' = "flush"
            /\ UNCHANGED <<batch_size, all_files, fileIdx, records, page, rowcount,
                           catExit>>
       ELSE /\ catPc' = "idle"
            /\ catExit' = "ok"
            /\ Return
    /\ UNCHANGED <<envVars, dbVars, thumbFiles, thVars, txn, inserted>>

\* FlushPage with the connection in autocommit mode: every page is committed
\* by itself
FlushPageAutocommit ==
    /\ catPc = "flush"
    /\ page <= NumPages(records)
    /\ LET res == InsertRows(PageOf(records, page), 1, images \cup txn, idSeq, {})
       IN /\ idSeq' = res.seq
          /\ IF res.err
             THEN /\ txn' = {}
                  /\ catPc' = "idle"
                  /\ catExit' = "exception"
                  /\ Return
                  /\ UNCHANGED images
             ELSE /\ images' = images \cup res.added
                  /\ rowcount' = Cardinality(res.added)
                  /\ page' = page + 1
                  /\ UNCHANGED <<txn, catPc, catExit, batch_size, all_files,
                                 fileIdx, records>>
    /\ UNCHANGED <<envVars, thumbFiles, thVars, inserted>>

\* FlushPage with ON CONFLICT (hash) DO UPDATE SET file_name, path in place
\* of DO NOTHING
FlushPageUpsert ==
    /\ catPc = "flush"
    /\ page <= NumPages(records)
    /\ LET pg == PageOf(records, page)
           res == InsertRows(pg, 1, images \cup txn, idSeq, {})
           hit(r) == {i \in 1..Len(pg) : pg[i].hash = r.hash}
           upd(r) == IF hit(r) = {} THEN r
                     ELSE LET i == CHOOSE i \in hit(r) : TRUE
                          IN [r EXCEPT !.file_name = pg[i].file_name,
                                       !.path = pg[i].path]
       IN /\ idSeq' = res.seq
          /\ IF res.err
             THEN /\ txn' = {}
                  /\ catPc' = "idle"
                  /\ catExit' = "exception"
                  /\ Return
                  /\ UNCHANGED images
             ELSE /\ txn' = txn \cup res.added
                  /\ images' = {upd(r) : r \in images}
                  /\ rowcount' = Cardinality(res.added)
                  /\ page' = page + 1
                  /\ UNCHANGED <<catPc, catExit, batch_size, all_files, fileIdx,
                                 records>>
    /\ UNCHANGED <<envVars, thumbFiles, thVars, inserted>>

\* execute_values sends one page of the batch as one INSERT statement. A
\* unique violation propagates out of catalog_images and main; putconn rolls
\* the transaction back.
FlushPage ==
    /\ catPc = "flush"
    /\ page <= NumPages(records)
    /\ LET res == InsertRows(PageOf(records, page), 1, images \cup txn, idSeq, {})
       IN /\ idSeq' = res.seq
          /\ IF res.err
             THEN /\ txn' = {}
                  /\ catPc' = "idle"
                  /\ catExit' = "exception"
                  /\ Return
             ELSE /\ txn' = txn \cup res.added
                  /\ rowcount' = Cardinality(res.added)
                  /\ page' = page + 1
                  /\ UNCHANGED <<catPc, catExit, batch_size, all_files, fileIdx,
                                 records>>
    /\ UNCHANGED <<envVars, images, thumbFiles, thVars, inserted>>

\* Commit without `records = []` after the call
CommitKeepsBuffer ==
    /\ catPc = "flush"
    /\ page > NumPages(records)
    /\ inserted' = rowcount
    /\ images' = images \cup txn
    /\ txn' = {}
    /\ IF fileIdx > Len(all_files)
       THEN /\ catPc' = "idle"
            /\ catExit' = "ok"
            /\ Return
       ELSE /\ catPc' = "scan"
            /\ page' = 1
            /\ UNCHANGED <<catExit, batch_size, all_files, fileIdx, rowcount,
                           records>>
    /\ UNCHANGED <<envVars, idSeq, thumbFiles, thVars>>

\* inserted = cursor.rowcount; conn.commit(); return inserted; then the
\* buffer is emptied, or catalog_images returns after the last flush
Commit ==
    /\ catPc = "flush"
    /\ page > NumPages(records)
    /\ inserted' = rowcount
    /\ images' = images \cup txn
    /\ txn' = {}
    /\ IF fileIdx > Len(all_files)
       THEN /\ catPc' = "idle"
            /\ catExit' = "ok"
            /\ Return
       ELSE /\ catPc' = "scan"
            /\ records' = <<>>
            /\ page' = 1
            /\ UNCHANGED <<catExit, batch_size, all_files, fileIdx, rowcount>>
    /\ UNCHANGED <<envVars, idSeq, thumbFiles, thVars>>

\* the process is interrupted; the server rolls the open transaction back
InterruptCatalog ==
    /\ catPc # "idle"
    /\ catPc' = "idle"
    /\ catExit' = "killed"
    /\ txn' = {}
    /\ Return
    /\ UNCHANGED <<envVars, dbVars, thumbFiles, thVars, inserted>>

(***************************************************************************)
(* create_thumbnails                                                       *)
(***************************************************************************)
\* create_thumbnails returns: its locals are gone
ReturnThumbs ==
    /\ thPc' = "idle"
    /\ thImages' = {}
    /\ thCur' = <<>>
    /\ counters' = ZeroCounters

\* StartThumbs without `total_images = len(images)`
StartThumbsNoCount ==
    /\ thPc = "idle"
    /\ thImages' = SelectImages(images)
    /\ counters' = ZeroCounters
    /\ thCur' = <<>>
    /\ thPc' = "loop"
    /\ UNCHANGED <<envVars, dbVars, thumbFiles, catVars>>

\* ensure_thumbnail_column, connect, run the SELECT, count the rows
StartThumbs ==
    /\ thPc = "idle"
    /\ thImages' = SelectImages(images)
    /\ counters' = [ZeroCounters EXCEPT
                        !.total_images = Cardinality(SelectImages(images))]
    /\ thCur' = <<>>
    /\ thPc' = "loop"
    /\ UNCHANGED <<envVars, dbVars, thumbFiles, catVars>>

\* CheckSource without the test for a missing file
CheckSourceNoSkip(img) ==
    /\ thPc = "loop"
    /\ img \in thImages
    /\ thImages' = thImages \ {img}
    /\ thCur' = <<img>>
    /\ thPc' = "dest"
    /\ UNCHANGED <<envVars, dbVars, thumbFiles, catVars, counters>>

\* the next row of the for loop: `continue` when its file is missing
CheckSource(img) ==
    /\ thPc = "loop"
    /\ img \in thImages
    /\ thImages' = thImages \ {img}
    /\ IF ~PathExists(fs, img.path)
       THEN /\ counters' = [counters EXCEPT !.total_skipped = @ + 1]
            /\ UNCHANGED <<thPc, thCur>>
       ELSE /\ thCur' = <<img>>
            /\ thPc' = "dest"
            /\ UNCHANGED counters
    /\ UNCHANGED <<envVars, dbVars, thumbFiles, catVars>>

\* if not thumbnail_path.exists(): ... ; otherwise the iteration ends
CheckDest ==
    /\ thPc = "dest"
    /\ IF ThumbnailPath(thCur[1].id) \in DOMAIN thumbFiles
       THEN /\ thPc' = "loop"
            /\ thCur' = <<>>
       ELSE /\ thPc' = "gen"
            /\ UNCHANGED thCur
    /\ UNCHANGED <<envVars, dbVars, thumbFiles, catVars, thImages, counters>>

\* Generate with the UPDATE outside `if success`
GenerateAlwaysAttaches ==
    /\ thPc = "gen"
    /\ IF generate_thumbnail(fs, thCur[1].path)
       THEN /\ thumbFiles' = SaveFile(thumbFiles, ThumbnailPath(thCur[1].id))
            /\ counters' = [counters EXCEPT !.total_processed = @ + 1,
                                            !.total_success = @ + 1]
       ELSE /\ counters' = [counters EXCEPT !.total_processed = @ + 1,
                                            !.total_errors = @ + 1]
            /\ UNCHANGED thumbFiles
    /\ thPc' = "attach"
    /\ UNCHANGED thCur
    /\ UNCHANGED <<envVars, dbVars, catVars, thImages>>

\* success = generate_thumbnail(path, thumbnail_path) and the counters
Generate ==
    /\ thPc = "gen"
    /\ IF generate_thumbnail(fs, thCur[1].path)
       THEN /\ thumbFiles' = SaveFile(thumbFiles, ThumbnailPath(thCur[1].id))
            /\ counters' = [counters EXCEPT !.total_processed = @ + 1,
                                            !.total_success = @ + 1]
            /\ thPc' = "attach"
            /\ UNCHANGED thCur
       ELSE /\ counters' = [counters EXCEPT !.total_processed = @ + 1,
                                            !.total_errors = @ + 1]
            /\ thPc' = "loop"
            /\ thCur' = <<>>
            /\ UNCHANGED thumbFiles
    /\ UNCHANGED <<envVars, dbVars, catVars, thImages>>

\* the UPDATE of thumbnail_path and conn.commit()
Attach ==
    /\ thPc = "attach"
    /\ images' = UpdateThumbnailPath(images, thCur[1].id,
                                     ThumbnailPath(thCur[1].id))
    /\ thPc' = "loop"
    /\ thCur' = <<>>
    /\ UNCHANGED <<envVars, idSeq, thumbFiles, catVars, thImages, counters>>

\* the for loop is over: the summary is logged, the connection closed
FinishThumbs ==
    /\ thPc = "loop"
    /\ thImages = {}
    /\ ReturnThumbs
    /\ UNCHANGED <<envVars, dbVars, thumbFiles, catVars>>

\* the process is interrupted
InterruptThumbs ==
    /\ thPc # "idle"
    /\ ReturnThumbs
    /\ UNCHANGED <<envVars, dbVars, thumbFiles, catVars>>


(***************************************************************************)
(* The next-state relation. A catalog run and a thumbnail pass are         *)
(* separate invocations, started one after the other; the environment and  *)
(* an interrupt may act at any time. The sequence behind images.id is      *)
(* bounded by MaxId.                                                       *)
(***************************************************************************)
CanStartCatalog == thPc = "idle" /\ idSeq + Len(collect_files(fs)) <= MaxId
CanStartThumbs == catPc = "idle"

Next ==
    \/ \E p \in PathSet, c \in Contents : ChangeFile(p, c) /\ UNCHANGED <<histVars, concVars>>
    \/ \E bs \in 1..MaxBatchSize :
          CanStartCatalog /\ StartCatalog(bs) /\ UNCHANGED <<histVars, concVars>>
    \/ ScanFile /\ UNCHANGED <<histVars, concVars>>
    \/ EndScan /\ UNCHANGED <<histVars, concVars>>
    \/ FlushPage /\ UNCHANGED <<histVars, concVars>>
    \/ Commit /\ UNCHANGED <<histVars, concVars>>
    \/ InterruptCatalog /\ UNCHANGED <<histVars, concVars>>
    \/ CanStartThumbs /\ StartThumbs /\ UNCHANGED <<histVars, concVars>>
    \/ \E img \in thImages : CheckSource(img) /\ UNCHANGED <<histVars, concVars>>
    \/ CheckDest /\ UNCHANGED <<histVars, concVars>>
    \/ Generate /\ UNCHANGED <<histVars, concVars>>
    \/ Attach /\ UNCHANGED <<histVars, concVars>>
    \/ FinishThumbs /\ UNCHANGED <<histVars, concVars>>
    \/ InterruptThumbs /\ UNCHANGED <<histVars, concVars>>

Spec == Init /\ [][Next]_vars

(***************************************************************************)
(* History variables. Each is updated by an observer of the steps above    *)
(* and is followed by the specification that needs it; the other           *)
(* specifications leave it unchanged.                                      *)
(***************************************************************************)
CatalogStarts == catPc = "idle" /\ catPc' # "idle"
CatalogEnds == catPc # "idle" /\ catPc' = "idle"
ThumbsStart == thPc = "idle" /\ thPc' # "idle"
ThumbsEnd == thPc # "idle" /\ thPc' = "idle"
\* the pass ends with every selected row iterated
ThumbsComplete == thPc = "loop" /\ thImages = {} /\ thPc' = "idle"

\* scannedFps: the fingerprints of the records of every flush that has ended,
\* by its return or by an exception
ObsScanned ==
    scannedFps' =
        IF catPc = "flush" /\ catPc' # "flush" /\ catExit' # "killed"
        THEN scannedFps \cup {records[i].hash : i \in 1..Len(records)}
        ELSE scannedFps

\* pl: a catalog run that ends by itself, then a thumbnail pass that
\* completes, then both once more, with no change of the tree and no
\* interrupt in between. The registry and the artifacts are recorded when
\* the second catalog run starts.
ObsPipeline ==
    pl' =
        IF fs' # fs THEN PlOff
        ELSE IF CatalogStarts
        THEN IF pl.phase \in {"p1", "p2"}
             THEN [phase |-> "c2", images |-> images, files |-> thumbFiles]
             ELSE [PlOff EXCEPT !.phase = "c1"]
        ELSE IF CatalogEnds
        THEN IF catExit' = "killed" THEN PlOff
             ELSE IF pl.phase = "c1" THEN [pl EXCEPT !.phase = "c1d"]
             ELSE IF pl.phase = "c2" THEN [pl EXCEPT !.phase = "c2d"]
             ELSE PlOff
        ELSE IF ThumbsStart
        THEN IF pl.phase = "c1d" THEN [pl EXCEPT !.phase = "t1"]
             ELSE IF pl.phase = "c2d" THEN [pl EXCEPT !.phase = "t2"]
             ELSE PlOff
        ELSE IF ThumbsEnd
        THEN IF ~ThumbsComplete THEN PlOff
             ELSE IF pl.phase = "t1" THEN [pl EXCEPT !.phase = "p1"]
             ELSE IF pl.phase = "t2" THEN [pl EXCEPT !.phase = "p2"]
             ELSE PlOff
        ELSE pl

\* rr: a catalog run that was interrupted and a rerun over the unchanged
\* tree; base is the registry the interrupted run started from, kept the ids
\* of the rows in the registry when it was interrupted
ObsRerun ==
    rr' =
        IF fs' # fs THEN RrOff
        ELSE IF CatalogStarts
        THEN IF rr.phase = "broken"
             THEN [rr EXCEPT !.phase = "rerun"]
             ELSE [phase |-> "first", base |-> images, kept |-> {}]
        ELSE IF CatalogEnds
        THEN IF rr.phase \notin {"first", "rerun"} THEN RrOff
             ELSE IF catExit' = "killed"
             THEN [rr EXCEPT !.phase = "broken",
                             !.kept = @ \cup {r.id : r \in images}]
             ELSE IF rr.phase = "rerun" THEN [rr EXCEPT !.phase = "done"]
             ELSE RrOff
        ELSE rr

\* failedIds: the ids of the rows for which generate_thumbnail returned False
ObsFailed ==
    failedIds' =
        IF thPc = "gen" /\ thPc' = "loop"
        THEN failedIds \cup {thCur[1].id}
        ELSE failedIds

\* file names of a sequence of records
RECURSIVE NamesOf(_)
NamesOf(recs) ==
    IF recs = <<>> THEN <<>>
    ELSE <<recs[1].file_name>> \o NamesOf(Tail(recs))

\* bf: for the catalog run in progress or just ended, the names of the
\* records process_file_metadata has produced, the names of the records
\* handed to insert_image_records, and the number of such calls
ObsFlow ==
    bf' =
        IF catPc = "idle" THEN BfOff
        ELSE LET grown == catPc = "scan" /\ Len(records') > Len(records)
                 called == catPc = "scan" /\ catPc' = "flush"
             IN [processed |->
                    IF grown
                    THEN Append(bf.processed, records'[Len(records')].file_name)
                    ELSE bf.processed,
                 submitted |->
                    IF called THEN bf.submitted \o NamesOf(records')
                    ELSE bf.submitted,
                 flushes |-> IF called THEN bf.flushes + 1 ELSE bf.flushes]

\* passIds: the ids of the rows whose thumbnail_path the pass in progress
\* has set
ObsPass ==
    passIds' =
        IF thPc = "idle" \/ thPc' = "idle" THEN {}
        ELSE passIds \cup
             {q.id : q \in {x \in images' :
                 /\ x.thumbnail_path # NULL
                 /\ \E r \in images : r.id = x.id /\ r.thumbnail_path = NULL}}

HistScanned == ObsScanned /\ UNCHANGED <<pl, rr, failedIds, bf, passIds, concVars>>
HistPipeline == ObsPipeline /\ UNCHANGED <<scannedFps, rr, failedIds, bf, passIds, concVars>>
HistRerun == ObsRerun /\ UNCHANGED <<scannedFps, pl, failedIds, bf, passIds, concVars>>
HistFailed == ObsFailed /\ UNCHANGED <<scannedFps, pl, rr, bf, passIds, concVars>>
HistTally == ObsFlow /\ ObsPass /\ UNCHANGED <<scannedFps, pl, rr, failedIds, concVars>>

NextScanned ==
    \/ \E p \in PathSet, c \in Contents : ChangeFile(p, c) /\ HistScanned
    \/ \E bs \in 1..MaxBatchSize : CanStartCatalog /\ StartCatalog(bs) /\ HistScanned
    \/ ScanFile /\ HistScanned
    \/ EndScan /\ HistScanned
    \/ FlushPage /\ HistScanned
    \/ Commit /\ HistScanned
    \/ InterruptCatalog /\ HistScanned
    \/ CanStartThumbs /\ StartThumbs /\ HistScanned
    \/ \E img \in thImages : CheckSource(img) /\ HistScanned
    \/ CheckDest /\ HistScanned
    \/ Generate /\ HistScanned
    \/ Attach /\ HistScanned
    \/ FinishThumbs /\ HistScanned
    \/ InterruptThumbs /\ HistScanned

NextPipeline ==
    \/ \E p \in PathSet, c \in Contents : ChangeFile(p, c) /\ HistPipeline
    \/ \E bs \in 1..MaxBatchSize : CanStartCatalog /\ StartCatalog(bs) /\ HistPipeline
    \/ ScanFile /\ HistPipeline
    \/ EndScan /\ HistPipeline
    \/ FlushPage /\ HistPipeline
    \/ Commit /\ HistPipeline
    \/ InterruptCatalog /\ HistPipeline
    \/ CanStartThumbs /\ StartThumbs /\ HistPipeline
    \/ \E img \in thImages : CheckSource(img) /\ HistPipeline
    \/ CheckDest /\ HistPipeline
    \/ Generate /\ HistPipeline
    \/ Attach /\ HistPipeline
    \/ FinishThumbs /\ HistPipeline
    \/ InterruptThumbs /\ HistPipeline

NextRerun ==
    \/ \E p \in PathSet, c \in Contents : ChangeFile(p, c) /\ HistRerun
    \/ \E bs \in 1..MaxBatchSize : CanStartCatalog /\ StartCatalog(bs) /\ HistRerun
    \/ ScanFile /\ HistRerun
    \/ EndScan /\ HistRerun
    \/ FlushPage /\ HistRerun
    \/ Commit /\ HistRerun
    \/ InterruptCatalog /\ HistRerun
    \/ CanStartThumbs /\ StartThumbs /\ HistRerun
    \/ \E img \in thImages : CheckSource(img) /\ HistRerun
    \/ CheckDest /\ HistRerun
    \/ Generate /\ HistRerun
    \/ Attach /\ HistRerun
    \/ FinishThumbs /\ HistRerun
    \/ InterruptThumbs /\ HistRerun

NextFailed ==
    \/ \E p \in PathSet, c \in Contents : ChangeFile(p, c) /\ HistFailed
    \/ \E bs \in 1..MaxBatchSize : CanStartCatalog /\ StartCatalog(bs) /\ HistFailed
    \/ ScanFile /\ HistFailed
    \/ EndScan /\ HistFailed
    \/ FlushPage /\ HistFailed
    \/ Commit /\ HistFailed
    \/ InterruptCatalog /\ HistFailed
    \/ CanStartThumbs /\ StartThumbs /\ HistFailed
    \/ \E img \in thImages : CheckSource(img) /\ HistFailed
    \/ CheckDest /\ HistFailed
    \/ Generate /\ HistFailed
    \/ Attach /\ HistFailed
    \/ FinishThumbs /\ HistFailed
    \/ InterruptThumbs /\ HistFailed

NextTally ==
    \/ \E p \in PathSet, c \in Contents : ChangeFile(p, c) /\ HistTally
    \/ \E bs \in 1..MaxBatchSize : CanStartCatalog /\ StartCatalog(bs) /\ HistTally
    \/ ScanFile /\ HistTally
    \/ EndScan /\ HistTally
    \/ FlushPage /\ HistTally
    \/ Commit /\ HistTally
    \/ InterruptCatalog /\ HistTally
    \/ CanStartThumbs /\ StartThumbs /\ HistTally
    \/ \E img \in thImages : CheckSource(img) /\ HistTally
    \/ CheckDest /\ HistTally
    \/ Generate /\ HistTally
    \/ Attach /\ HistTally
    \/ FinishThumbs /\ HistTally
    \/ InterruptThumbs /\ HistTally

\* Spec with scannedFps followed
SpecScanned == Init /\ [][NextScanned]_vars
\* Spec with pl followed
SpecPipeline == Init /\ [][NextPipeline]_vars
\* Spec with rr followed
SpecRerun == Init /\ [][NextRerun]_vars
\* Spec with failedIds followed
SpecFailed == Init /\ [][NextFailed]_vars
\* Spec with bf and passIds followed
SpecTally == Init /\ [][NextTally]_vars

(***************************************************************************)
(* Two catalog runs at once. Each run is catalog_images in its own process *)
(* with its own connection; the second starts before the first has ended.  *)
(* The rows of one INSERT statement are inserted one after the other, and  *)
(* a row that meets an uncommitted row of the other transaction with its   *)
(* hash or its path waits until that transaction commits or aborts.        *)
(***************************************************************************)
seqVars == <<thumbFiles, catVars, thVars, histVars>>

\* the locals of a run that has ended with exit e
CcEnd(c, e) == [CcIdle EXCEPT !.exit = e, !.submitted = c.submitted]

\* catalog_images is called by run r
CStart(r, bs) ==
    /\ cc[r].pc = "idle"
    /\ cc[r].exit = "none"
    /\ cc[Other(r)].exit = "none"
    /\ cc' = [cc EXCEPT ![r] = [CcIdle EXCEPT !.pc = "scan",
                                              !.batch_size = bs,
                                              !.all_files = collect_files(fs)]]
    /\ UNCHANGED <<envVars, dbVars, seqVars, tt>>

\* one iteration of the for loop of run r up to the call of
\* insert_image_records
CScan(r) ==
    /\ cc[r].pc = "scan"
    /\ cc[r].fileIdx <= Len(cc[r].all_files)
    /\ LET record == process_file_metadata(fs, cc[r].all_files[cc[r].fileIdx])
           recs == cc[r].records \o record
           full == record # <<>> /\ Len(recs) >= cc[r].batch_size
       IN cc' = [cc EXCEPT
                    ![r].records = recs,
                    ![r].fileIdx = @ + 1,
                    ![r].pc = IF full THEN "flush" ELSE "scan",
                    ![r].submitted = IF full THEN @ \cup RecHashes(recs) ELSE @]
    /\ UNCHANGED <<envVars, dbVars, seqVars, tt>>

\* the for loop of run r is over: flush what remains, or return
CEndScan(r) ==
    /\ cc[r].pc = "scan"
    /\ cc[r].fileIdx > Len(cc[r].all_files)
    /\ cc' = IF cc[r].records # <<>>
             THEN [cc EXCEPT ![r].pc = "flush",
                             ![r].submitted = @ \cup RecHashes(cc[r].records)]
             ELSE [cc EXCEPT ![r] = CcEnd(cc[r], "ok")]
    /\ UNCHANGED <<envVars, dbVars, seqVars, tt>>

\* the next row of the INSERT of run r waits for the other transaction
Blocked(r) ==
    /\ cc[r].pc = "flush"
    /\ cc[r].pos <= Len(cc[r].records)
    /\ LET rec == cc[r].records[cc[r].pos]
           mine == images \cup cc[r].txn
           theirs == cc[Other(r)].txn
       IN IF \E row \in mine : row.hash = rec.hash THEN FALSE
          ELSE IF \E row \in theirs : row.hash = rec.hash THEN TRUE
          ELSE IF \E row \in mine : row.path = rec.path THEN FALSE
          ELSE \E row \in theirs : row.path = rec.path

\* the INSERT of run r handles its next row: skipped on a hash conflict,
\* a unique violation on a path conflict, inserted otherwise
CInsertRow(r) ==
    /\ cc[r].pc = "flush"
    /\ cc[r].pos <= Len(cc[r].records)
    /\ ~Blocked(r)
    /\ idSeq' = idSeq + 1
    /\ LET rec == cc[r].records[cc[r].pos]
           mine == images \cup cc[r].txn
       IN cc' = IF \E row \in mine : row.hash = rec.hash
                THEN [cc EXCEPT ![r].pos = @ + 1]
                ELSE IF \E row \in mine : row.path = rec.path
                THEN [cc EXCEPT ![r] = CcEnd(cc[r], "exception")]
                ELSE [cc EXCEPT ![r].pos = @ + 1,
                                ![r].txn = @ \cup {Row(rec, idSeq + 1)}]
    /\ UNCHANGED <<envVars, images, seqVars, tt>>

\* conn.commit() of run r; then the buffer is emptied, or the run returns
CCommit(r) ==
    /\ cc[r].pc = "flush"
    /\ cc[r].pos > Len(cc[r].records)
    /\ images' = images \cup cc[r].txn
    /\ cc' = IF cc[r].fileIdx > Len(cc[r].all_files)
             THEN [cc EXCEPT ![r] = CcEnd(cc[r], "ok")]
             ELSE [cc EXCEPT ![r].pc = "scan", ![r].records = <<>>,
                             ![r].pos = 1, ![r].txn = {}]
    /\ UNCHANGED <<envVars, idSeq, seqVars, tt>>

\* both transactions wait for each other: the server aborts one of them
\* and its run is left by the exception
CDeadlock(r) ==
    /\ Blocked(1)
    /\ Blocked(2)
    /\ cc' = [cc EXCEPT ![r] = CcEnd(cc[r], "deadlock")]
    /\ UNCHANGED <<envVars, dbVars, seqVars, tt>>

NextTwoCatalogs ==
    \/ \E p \in PathSet, c \in Contents :
          ChangeFile(p, c) /\ UNCHANGED <<histVars, concVars>>
    \/ \E r \in Runs, bs \in 1..MaxBatchSize : CStart(r, bs)
    \/ \E r \in Runs : CScan(r)
    \/ \E r \in Runs : CEndScan(r)
    \/ \E r \in Runs : CInsertRow(r)
    \/ \E r \in Runs : CCommit(r)
    \/ \E r \in Runs : CDeadlock(r)

SpecTwoCatalogs == Init /\ [][NextTwoCatalogs]_vars

(***************************************************************************)
(* Two thumbnail passes at once, over a registry that catalog runs have    *)
(* filled. Each pass is create_thumbnails in its own process with its own  *)
(* connection, and runs once. No catalog run is in progress while a pass   *)
(* runs.                                                                   *)
(***************************************************************************)
PassesIdle == \A k \in Runs : tt[k].pc = "idle"

\* create_thumbnails is called by pass k: the SELECT and the count
TStart(k) ==
    /\ catPc = "idle"
    /\ tt[k].pc = "idle"
    /\ ~tt[k].done
    /\ tt' = [tt EXCEPT ![k] =
                 [TtIdle EXCEPT
                     !.pc = "loop",
                     !.images = SelectImages(images),
                     !.counters = [ZeroCounters EXCEPT !.total_images =
                                       Cardinality(SelectImages(images))]]]
    /\ UNCHANGED <<envVars, dbVars, thumbFiles, catVars, thVars, histVars, cc>>

\* the next row of the for loop of pass k: `continue` when its file is
\* missing
TCheckSource(k, img) ==
    /\ tt[k].pc = "loop"
    /\ img \in tt[k].images
    /\ tt' = IF ~PathExists(fs, img.path)
             THEN [tt EXCEPT ![k].images = @ \ {img},
                             ![k].counters.total_skipped = @ + 1]
             ELSE [tt EXCEPT ![k].images = @ \ {img},
                             ![k].cur = <<img>>,
                             ![k].pc = "dest"]
    /\ UNCHANGED <<envVars, dbVars, thumbFiles, catVars, thVars, histVars, cc>>

\* if not thumbnail_path.exists(), in pass k
TCheckDest(k) ==
    /\ tt[k].pc = "dest"
    /\ tt' = IF ThumbnailPath(tt[k].cur[1].id) \in DOMAIN thumbFiles
             THEN [tt EXCEPT ![k].pc = "loop", ![k].cur = <<>>]
             ELSE [tt EXCEPT ![k].pc = "gen"]
    /\ UNCHANGED <<envVars, dbVars, thumbFiles, catVars, thVars, histVars, cc>>

\* success = generate_thumbnail(path, thumbnail_path) and the counters, in
\* pass k
TGenerate(k) ==
    /\ tt[k].pc = "gen"
    /\ IF generate_thumbnail(fs, tt[k].cur[1].path)
       THEN /\ thumbFiles' = SaveFile(thumbFiles, ThumbnailPath(tt[k].cur[1].id))
            /\ tt' = [tt EXCEPT ![k].pc = "attach",
                                ![k].counters.total_processed = @ + 1,
                                ![k].counters.total_success = @ + 1]
       ELSE /\ tt' = [tt EXCEPT ![k].pc = "loop",
                                ![k].cur = <<>>,
                                ![k].counters.total_processed = @ + 1,
                                ![k].counters.total_errors = @ + 1]
            /\ UNCHANGED thumbFiles
    /\ UNCHANGED <<envVars, dbVars, catVars, thVars, histVars, cc>>

\* the UPDATE of thumbnail_path and conn.commit(), in pass k
TAttach(k) ==
    /\ tt[k].pc = "attach"
    /\ images' = UpdateThumbnailPath(images, tt[k].cur[1].id,
                                     ThumbnailPath(tt[k].cur[1].id))
    /\ tt' = [tt EXCEPT ![k].pc = "loop", ![k].cur = <<>>]
    /\ UNCHANGED <<envVars, idSeq, thumbFiles, catVars, thVars, histVars, cc>>

\* the for loop of pass k is over
TFinish(k) ==
    /\ tt[k].pc = "loop"
    /\ tt[k].images = {}
    /\ tt' = [tt EXCEPT ![k] = [TtIdle EXCEPT !.done = TRUE]]
    /\ UNCHANGED <<envVars, dbVars, thumbFiles, catVars, thVars, histVars, cc>>

NextTwoThumbs ==
    \/ \E p \in PathSet, c \in Contents :
          ChangeFile(p, c) /\ UNCHANGED <<histVars, concVars>>
    \/ \E bs \in 1..MaxBatchSize :
          /\ PassesIdle
          /\ CanStartCatalog
          /\ StartCatalog(bs)
          /\ UNCHANGED <<histVars, concVars>>
    \/ ScanFile /\ UNCHANGED <<histVars, concVars>>
    \/ EndScan /\ UNCHANGED <<histVars, concVars>>
    \/ FlushPage /\ UNCHANGED <<histVars, concVars>>
    \/ Commit /\ UNCHANGED <<histVars, concVars>>
    \/ \E k \in Runs : TStart(k)
    \/ \E k \in Runs : \E img \in tt[k].images : TCheckSource(k, img)
    \/ \E k \in Runs : TCheckDest(k)
    \/ \E k \in Runs : TGenerate(k)
    \/ \E k \in Runs : TAttach(k)
    \/ \E k \in Runs : TFinish(k)

SpecTwoThumbs == Init /\ [][NextTwoThumbs]_vars

(***************************************************************************)
(* Vocabulary of the properties.                                           *)
(***************************************************************************)
\* the page about to be sent holds a record whose path is registered (or was
\* inserted earlier in the transaction) under another fingerprint
PathConflict(recs, vis) ==
    \E i \in 1..Len(recs) : \E r \in vis :
        r.path = recs[i].path /\ r.hash # recs[i].hash

\* the step taken sends a page of the batch to the server
SendsPage ==
    /\ catPc = "flush"
    /\ page <= NumPages(records)
    /\ (page' = page + 1 \/ catExit' = "exception")

\* the step taken is the return of insert_image_records
FlushReturns ==
    /\ catPc = "flush"
    /\ page > NumPages(records)
    /\ catPc' # "flush"
    /\ catExit' # "killed"

(***************************************************************************)
(* C2. Inserting a candidate record whose path is already registered under *)
(* another fingerprint is a silent no-op: the registry keeps its rows and  *)
(* the insert raises no error.                                             *)
(***************************************************************************)
C2_PathConflictIsSilentNoOp ==
    [][(SendsPage /\ PathConflict(PageOf(records, page), images \cup txn))
       => (catExit' # "exception" /\ images' = images)]_vars

(***************************************************************************)
(* C10. insert_image_records returns the number of rows it added to the    *)
(* registry: the size after the call minus the size before.                *)
(***************************************************************************)
C10_ReturnsRowsAdded ==
    [][FlushReturns =>
        inserted' = Cardinality(images') - Cardinality(images)]_vars

(***************************************************************************)
(* C5. A batch flush is all-or-nothing: the set of visible rows changes    *)
(* only by a step that makes every non-conflicting record of the batch     *)
(* visible at once, also when the batch spans several pages and when a     *)
(* page fails.                                                             *)
(***************************************************************************)
C5_FlushAllOrNothing ==
    [][RowIds(images') # RowIds(images)
       => /\ catPc = "flush"
          /\ images \subseteq images'
          /\ RowHashes({r \in images' : r.id \notin RowIds(images)})
                = RecHashes(records) \ RowHashes(images)]_vars

\* a batch of two pages is in flight: the rows of its first page are
\* inserted and not visible
C5_Witness ==
    /\ catPc = "flush"
    /\ NumPages(records) = 2
    /\ page = 2
    /\ txn # {}
    /\ RowIds(txn) \cap RowIds(images) = {}

(***************************************************************************)
(* C6. A selected row whose source file is missing is skipped: the         *)
(* skipped counter grows by one, the row keeps thumbnail_path NULL, no     *)
(* artifact is written and the pass goes on with the remaining rows.       *)
(***************************************************************************)
C6_MissingSourceSkipped ==
    [][\A img \in thImages :
        (/\ thPc = "loop"
         /\ thImages' = thImages \ {img}
         /\ thPc' # "idle"
         /\ ~PathExists(fs, img.path))
        => /\ counters' = [counters EXCEPT !.total_skipped = @ + 1]
           /\ \A r \in images' : r.id = img.id => r.thumbnail_path = NULL
           /\ images' = images
           /\ thumbFiles' = thumbFiles
           /\ thPc' = "loop"
           /\ thCur' = <<>>]_vars

\* a row was skipped for its missing file and the pass has rows left
C6_Witness ==
    /\ thPc = "loop"
    /\ counters.total_skipped > 0
    /\ thImages # {}

(***************************************************************************)
(* C7. A selected row whose source file exists and whose artifact already  *)
(* exists on disk is treated as successful: generation is skipped and the  *)
(* artifact path is attached to the row by the end of its iteration.       *)
(***************************************************************************)
C7_ExistingArtifactAttached ==
    [][(/\ thPc = "dest"
        /\ ThumbnailPath(thCur[1].id) \in DOMAIN thumbFiles
        /\ thPc' = "loop")
       => \A r \in images' :
             r.id = thCur[1].id => r.thumbnail_path = ThumbnailPath(r.id)]_vars

(***************************************************************************)
(* C9. thumbnail_path of a row is written at most once: it goes from NULL  *)
(* to the path derived from the row's own id and is never cleared or       *)
(* changed afterwards; no row disappears.                                  *)
(***************************************************************************)
C9_ThumbnailPathSetOnce ==
    [][\A r \in images : \E q \in images' :
        /\ q.id = r.id
        /\ r.thumbnail_path # NULL => q.thumbnail_path = r.thumbnail_path
        /\ q.thumbnail_path # r.thumbnail_path
              => q.thumbnail_path = ThumbnailPath(r.id)]_vars

\* a row has its path attached while a pass is about to attach another
C9_Witness ==
    /\ thPc = "attach"
    /\ \E r \in images :
          r.thumbnail_path = ThumbnailPath(r.id) /\ r.id # thCur[1].id

\* the (fingerprint, path) pairs of a set of rows
Keys(rows) == {<<r.hash, r.path>> : r \in rows}

(***************************************************************************)
(* C1. After any sequence of catalog runs the registry holds exactly one   *)
(* row for each fingerprint that was scanned and submitted, and never two  *)
(* rows with the same fingerprint.                                         *)
(***************************************************************************)
C1_OneRowPerScannedFingerprint ==
    catPc = "idle" =>
        \A h \in scannedFps \cup RowHashes(images) :
            Cardinality({r \in images : r.hash = h}) = 1

(***************************************************************************)
(* C3. A second run of the pipeline (catalog run, then thumbnail pass)     *)
(* over an unchanged tree leaves the registry and the artifact files as    *)
(* the first run left them: every flush reports 0 inserted, no row is      *)
(* added, no artifact is created or written again.                         *)
(***************************************************************************)
C3_SecondRunChangesNothing ==
    pl.phase \in {"c2", "c2d", "t2", "p2"} =>
        /\ images = pl.images
        /\ thumbFiles = pl.files
        /\ inserted = 0

\* the second pipeline run has completed over a tree whose files were
\* scanned again, with a thumbnail attached by the first
C3_Witness ==
    /\ pl.phase = "p2"
    /\ \E r \in images : fs[r.path[2]] = r.hash /\ r.thumbnail_path # NULL
    /\ \E r \in images : r.thumbnail_path = NULL

(***************************************************************************)
(* C4. After a catalog run is interrupted, the rows committed before the   *)
(* interrupt stay in the registry, and a rerun over the unchanged tree     *)
(* completes and leaves the registry with the fingerprints and paths one   *)
(* uninterrupted run would have produced.                                  *)
(***************************************************************************)
C4_RerunAfterInterrupt ==
    /\ rr.phase \in {"broken", "rerun", "done"} => rr.kept \subseteq RowIds(images)
    /\ rr.phase = "done" =>
          /\ catExit = "ok"
          /\ Keys(images) = Keys(FullRun(rr.base, fs))

\* a failing generation counts an error and leaves registry and artifacts alone
C8_FailureStep ==
    (thPc = "gen" /\ thPc' = "loop")
    => /\ counters'.total_errors = counters.total_errors + 1
       /\ images' = images
       /\ thumbFiles' = thumbFiles

\* a pass selects every row that failed before and still has no thumbnail_path
C8_SelectedAgain ==
    ThumbsStart =>
        \A r \in images :
            (r.id \in failedIds /\ r.thumbnail_path = NULL)
            => \E img \in thImages' : img.id = r.id

\* the pass takes up a row that failed before and whose source file exists
C8_TakenUp ==
    \A img \in thImages :
        (/\ thPc = "loop"
         /\ img.id \in failedIds
         /\ thImages' = thImages \ {img}
         /\ thPc' # "idle"
         /\ PathExists(fs, img.path))
        => thPc' = "dest" /\ thCur' = <<img>>

(***************************************************************************)
(* C8. When generation fails for a row the failed counter grows, the row   *)
(* keeps thumbnail_path NULL and the pass continues with the next row;     *)
(* every later pass selects the row again and, for as long as its source   *)
(* file exists, attempts generation for it again.                          *)
(***************************************************************************)
C8_RetriedWhileSourceExists ==
    [][/\ C8_FailureStep
       /\ C8_SelectedAgain
       /\ C8_TakenUp
       /\ (/\ thPc = "dest"
           /\ thCur[1].id \in failedIds
           /\ thPc' \notin {"dest", "idle"})
          => thPc' = "gen"]_vars

(***************************************************************************)
(* C12. The buffer is flushed as soon as it holds batch_size records and   *)
(* once more at the end of the stream if it is not empty: it never holds   *)
(* more than batch_size records, and when a run completes every record     *)
(* that was produced has been handed to insert_image_records exactly once. *)
(***************************************************************************)
C12_BufferedAndFlushedOnce ==
    /\ catPc # "idle" => Len(records) <= batch_size
    /\ catPc = "scan" => Len(records) < batch_size
    /\ (catPc = "idle" /\ catExit = "ok") => bf.submitted = bf.processed

\* a run has just completed after two flushes of three records in all
C12_Witness ==
    /\ catPc = "idle"
    /\ catExit = "ok"
    /\ bf.flushes = 2
    /\ Len(bf.processed) = 3

(***************************************************************************)
(* C13. The registry is append-only apart from thumbnail_path: no step     *)
(* deletes a row or changes another column of a row, and no step of a      *)
(* catalog run changes an existing row at all, also when an incoming       *)
(* record conflicts with it.                                               *)
(***************************************************************************)
C13_AppendOnly ==
    [][/\ \A r \in images : \E q \in images' :
             [q EXCEPT !.thumbnail_path = r.thumbnail_path] = r
       /\ catPc # "idle" => images \subseteq images']_vars

\* a page whose first record conflicts with a row that has its thumbnail
\* attached has been sent and has added nothing
C13_Witness ==
    /\ catPc = "flush"
    /\ page = 2
    /\ txn = {}
    /\ \E r \in images :
          r.thumbnail_path # NULL /\ r.hash = records[1].hash

(***************************************************************************)
(* C14. When two concurrent catalog runs have both submitted records with  *)
(* one fingerprint, the registry ends up with exactly one row for that     *)
(* fingerprint and neither run has failed.                                 *)
(***************************************************************************)
C14_ConcurrentDuplicatesCollapse ==
    (cc[1].exit # "none" /\ cc[2].exit # "none") =>
        \A h \in cc[1].submitted \cap cc[2].submitted :
            /\ Cardinality({r \in images : r.hash = h}) = 1
            /\ cc[1].exit = "ok"
            /\ cc[2].exit = "ok"

(***************************************************************************)
(* C15. A row whose thumbnail_path is set has its artifact file on disk at *)
(* that path, the path derived from its id: the path is attached only      *)
(* after generate_thumbnail has saved the file. Nothing in the model       *)
(* deletes a file under THUMBNAIL_DIR.                                     *)
(***************************************************************************)
C15_AttachedArtifactExists ==
    \A r \in images :
        r.thumbnail_path # NULL
        => /\ r.thumbnail_path = ThumbnailPath(r.id)
           /\ r.thumbnail_path \in DOMAIN thumbFiles

\* in one pass a row has had its path attached and the generation for
\* another row has failed
C15_Witness ==
    /\ thPc = "loop"
    /\ counters.total_success > 0
    /\ counters.total_errors > 0
    /\ \E r \in images : r.thumbnail_path # NULL

(***************************************************************************)
(* C16. A thumbnail pass changes only rows it selected: a row whose        *)
(* thumbnail_path is set or whose extension is not supported (".dng") is   *)
(* never among the selected rows, gets no artifact written and keeps its   *)
(* thumbnail_path.                                                         *)
(***************************************************************************)
C16_OnlySelectedRowsChange ==
    [][/\ \A img \in thImages' \cup {thCur'[i] : i \in 1..Len(thCur')} :
             \E r \in images' :
                 /\ r.id = img.id
                 /\ r.thumbnail_path = NULL
                 /\ r.extension \in SUPPORTED_IMAGE_EXTENSIONS
       /\ \A r \in images : \A q \in images' :
             (q.id = r.id /\ q.thumbnail_path # r.thumbnail_path)
             => thCur # <<>> /\ thCur[1].id = r.id /\ r.thumbnail_path = NULL
       /\ \A tp \in DOMAIN thumbFiles' :
             (tp \notin DOMAIN thumbFiles \/ thumbFiles'[tp] # thumbFiles[tp])
             => thCur # <<>> /\ tp = ThumbnailPath(thCur[1].id)
       /\ \A r \in images' :
             r.extension \notin SUPPORTED_IMAGE_EXTENSIONS
             => /\ r.thumbnail_path = NULL
                /\ ThumbnailPath(r.id) \notin DOMAIN thumbFiles']_vars

\* a pass has run its SELECT over a registry that holds a ".dng" row and a
\* row whose path an earlier pass attached, and has selected neither
C16_Witness ==
    /\ thPc = "loop"
    /\ counters.total_images = 0
    /\ \E r \in images : r.extension = ".dng"
    /\ \E r \in images : r.thumbnail_path # NULL

(***************************************************************************)
(* C17. Between the iterations of a thumbnail pass the counters satisfy    *)
(* processed = succeeded + failed and processed + skipped <= total, and    *)
(* succeeded is the number of rows whose thumbnail_path this pass has set. *)
(***************************************************************************)
C17_CounterRelations ==
    thPc = "loop" =>
        /\ counters.total_processed
              = counters.total_success + counters.total_errors
        /\ counters.total_processed + counters.total_skipped
              <= counters.total_images
        /\ counters.total_success = Cardinality(passIds)

\* a pass is between iterations after one success and one failure
C17_Witness ==
    /\ thPc = "loop"
    /\ counters.total_success = 1
    /\ counters.total_errors = 1
    /\ passIds # {}

(***************************************************************************)
(* C18. When two thumbnail passes run at once over one registry, the       *)
(* artifact file of each row is written at most once: no artifact that     *)
(* exists is written again.                                                *)
(***************************************************************************)
C18_ArtifactWrittenOnce ==
    \A tp \in DOMAIN thumbFiles : thumbFiles[tp] <= 1

(***************************************************************************)
(* C11. A candidate file whose stat or fingerprinting fails produces no    *)
(* record: the iteration leaves the buffer and the registry as they are    *)
(* and the run goes on with the next file; no record or row ever carries   *)
(* an empty fingerprint.                                                   *)
(***************************************************************************)
C11_FailedCandidateDropped ==
    [][/\ (/\ catPc = "scan"
           /\ fileIdx <= Len(all_files)
           /\ fileIdx' = fileIdx + 1
           /\ fs[all_files[fileIdx]] \in {Absent, Unreadable})
          => /\ records' = records
             /\ images' = images
             /\ catPc' = "scan"
             /\ catExit' = "none"
       /\ \A i \in 1..Len(records') : records'[i].hash \in Hashes
       /\ \A r \in images' \cup txn' : r.hash \in Hashes]_vars

\* a run has completed over a tree whose first file cannot be read and has
\* registered the file that follows it
C11_Witness ==
    /\ catPc = "idle"
    /\ catExit = "ok"
    /\ fsChanges = 0
    /\ fs["a.jpg"] = Unreadable
    /\ \E r \in images : r.file_name = "b.png"

TypeOK ==
    /\ catPc \in {"idle", "scan", "flush"}
    /\ thPc \in {"idle", "loop", "dest", "gen", "attach"}
    /\ catExit \in {"none", "ok", "exception", "killed"}
    /\ idSeq \in 0..MaxId
    /\ fsChanges \in 0..MaxFsChanges
====
